---- MODULE Spec2Model ----
(***************************************************************************)
(* The routing engine of find-my-way (core/router_engine.py): stop          *)
(* resolution, departure-time parsing, the cost strategies and the A*       *)
(* search of IstanbulRouter.find_route, driven through find_advanced_path;  *)
(* the shortest-path query of core/graph.py behind the /api/route endpoint; *)
(* the graph construction of etl/ingest_gtfs.py; and the threads of the     *)
(* server: the loading of the graph by get_graph and                       *)
(* GraphRepository.get_instance, and searches that run beside one another. *)
(*                                                                         *)
(* Numbers.  Costs are minutes in the code (floats).  The model keeps them  *)
(* exact as integers in units of 1/1200 minute: seconds * (2*multiplier) *  *)
(* (10*mode factor).  Positions are integers in units of 1/100 degree, so   *)
(* that sqrt(dx^2 + dy^2) * 100 is a whole number of minutes.               *)
(* Strings that the code inspects (identifiers, names, time strings) are    *)
(* sequences of one-character strings.                                      *)
(***************************************************************************)
EXTENDS Integers, Sequences, FiniteSets, TLC

VARIABLES
    G,              \* the graph held by the GraphRepository singleton (read-only)
    pc,             \* position of the find_advanced_path invocation
    args,           \* arguments of the invocation in progress (harness record)
    real_start,     \* resolved start id (find_advanced_path local)
    real_end,       \* resolved end id
    now_hour,       \* now.hour after the time setting; start_time.hour of find_route
    strategy,       \* selected strategy class name
    queue,          \* find_route: the heap, as the set of its entries
    min_costs,      \* find_route: best known g per node (a function on the seen nodes)
    visited_count,  \* find_route: expansion counter
    pops,           \* number of heappop calls of this find_route invocation (history)
    expanded,       \* number of entries whose neighbours were enumerated (history)
    route,          \* what find_route returned: NoRoute or a RouteResult
    result,         \* what find_advanced_path returned
    prev,           \* result of the previous invocation with the same arguments
    response,       \* HTTP response of the /api/route request (api/index.py)
    edges_df,       \* build_graph: the trip segments, one row per segment
    row_index,      \* build_graph: position of the loop over edges_df
    graph_file,     \* whether the pickled graph exists at GRAPH_PATH
    graph_cache,    \* core/graph.py: the module global _graph_cache
    instance,       \* GraphRepository._instance
    loads,          \* number of pickle.load calls so far (history)
    threads,        \* per thread: its position in get_graph / get_instance
    searches        \* per thread: the locals of its find_route invocation

vars == <<G, pc, args, real_start, real_end, now_hour, strategy, queue, min_costs,
          visited_count, pops, expanded, route, result, prev, response,
          edges_df, row_index, graph_file, graph_cache, instance, loads,
          threads, searches>>

\* the state of the threads that run beside one another
concurrent_vars == <<graph_file, graph_cache, instance, loads, threads, searches>>

\* the state of the single query and of the ingestion
query_vars == <<pc, args, real_start, real_end, now_hour, strategy, queue, min_costs,
                visited_count, pops, expanded, route, result, prev, response,
                edges_df, row_index>>

-----------------------------------------------------------------------------
(* Bounds of the model *)

\* at most this many edges in a graph of the family
MaxEdges == 3

\* at most this many rows in edges_df
MaxRows == 2

\* at most this many calls of get_graph / get_instance per thread
MaxCalls == 2

\* router_engine.py:146 sets MAX_VISIT = 5000; the model scales the circuit
\* breaker down so that four-node graphs can trip it
MAX_VISIT == 3

-----------------------------------------------------------------------------
(* Strings *)

\* Python's None where a string is expected
None == <<"None">>

\* characters in ASCII order
Alphabet ==
    <<"0", "1", "2", "3", "4", "5", "6", "7", "8", "9", ":",
      "A", "B", "C", "D", "a", "b", "c", "d", "x">>

CodePoint == [c \in {Alphabet[i] : i \in 1..Len(Alphabet)} |->
                 CHOOSE i \in 1..Len(Alphabet) : Alphabet[i] = c]

\* ord(c), up to the order of the alphabet
Ord(c) == CodePoint[c]

\* str.lower() on one character
LowerChar(c) ==
    CASE c = "A" -> "a"
      [] c = "B" -> "b"
      [] c = "C" -> "c"
      [] c = "D" -> "d"
      [] OTHER -> c

\* str.lower()
StrLower(s) == [i \in 1..Len(s) |-> LowerChar(s[i])]

\* Python's `sub in s` on strings
StrContains(sub, s) ==
    \E i \in 0..(Len(s) - Len(sub)) : SubSeq(s, i + 1, i + Len(sub)) = sub

\* Python's s < t on strings (lexicographic by code point)
StrLess(s, t) ==
    LET n == IF Len(s) < Len(t) THEN Len(s) ELSE Len(t)
        diff == {i \in 1..n : s[i] # t[i]}
    IN  IF diff = {} THEN Len(s) < Len(t)
        ELSE LET k == CHOOSE i \in diff : \A j \in diff : i <= j
             IN  Ord(s[k]) < Ord(t[k])

-----------------------------------------------------------------------------
(* The graph: an nx.DiGraph with node attributes name, pos and edge          *)
(* attributes weight, type, route_name.  An attribute dictionary is a        *)
(* record; an absent key is an absent field.                                *)

idA == <<"A">>
idB == <<"B">>
idC == <<"C">>
idD == <<"D">>

Nodes == {idA, idB, idC, idD}

\* node attributes: 'name', and 'pos' in 1/100 degree; node C carries no name,
\* node D no pos
NodeData ==
    (idA :> [name |-> <<"A", "b">>, pos |-> <<0, 0>>]) @@
    (idB :> [name |-> <<"B", "a">>, pos |-> <<3, 4>>]) @@
    (idC :> [pos |-> <<6, 8>>]) @@
    (idD :> [name |-> <<"D", "b">>])

\* the edge attribute dictionaries the family draws from
EdgeKinds ==
    { [weight |-> 0,   type |-> "walk"],
      [weight |-> 360, type |-> "metro", route_name |-> "M2"],
      [weight |-> 600, type |-> "bus",   route_name |-> "500T"] }

\* the ordered pairs the family puts edges on: a direct edge A -> D beside the
\* chain A -> B -> D, the branch B -> C, the back edge B -> A that closes a
\* cycle, and the edge D -> B by which B is reached a second time
EdgePairs ==
    { <<idA, idB>>, <<idB, idA>>, <<idA, idD>>, <<idB, idD>>, <<idB, idC>>,
      <<idD, idB>> }

\* adjacency of a DiGraph: at most one attribute dictionary per ordered pair
Adjacencies ==
    UNION { [S -> EdgeKinds] : S \in {T \in SUBSET EdgePairs : Cardinality(T) <= MaxEdges} }

\* storage (insertion) order of the nodes
DefaultOrder == <<idA, idB, idC, idD>>

Graph(order, adj) == [order |-> order, nodes |-> NodeData, adj |-> adj]

\* `x in G`
HasNode(g, x) == \E i \in 1..Len(g.order) : g.order[i] = x

\* `G[u]`: the successors of u
Successors(g, u) == {v \in Nodes : <<u, v>> \in DOMAIN g.adj}

-----------------------------------------------------------------------------
(* GraphRepository *)

Unknown == <<"Unknown">>

\* GraphRepository.get_node_name
GetNodeName(g, node_id) ==
    IF "name" \in DOMAIN g.nodes[node_id] THEN g.nodes[node_id].name ELSE Unknown

\* GraphRepository.get_node_pos
GetNodePos(g, node_id) ==
    IF "pos" \in DOMAIN g.nodes[node_id] THEN g.nodes[node_id].pos ELSE <<0, 0>>

\* the loop of find_node_by_name over G.nodes(data=True), from index i on
RECURSIVE ScanNames(_, _, _)
ScanNames(g, search_lower, i) ==
    IF i > Len(g.order) THEN None
    ELSE LET node == g.order[i]
             data == g.nodes[node]
         IN  IF "name" \notin DOMAIN data THEN ScanNames(g, search_lower, i + 1)
             ELSE IF StrContains(search_lower, StrLower(data.name)) THEN node
             ELSE ScanNames(g, search_lower, i + 1)

\* GraphRepository.find_node_by_name
FindNodeByName(g, search_name) ==
    IF search_name = None \/ search_name = <<>> THEN None
    ELSE ScanNames(g, StrLower(search_name), 1)

-----------------------------------------------------------------------------
(* Cost strategies, in units of 1/1200 minute *)

\* mutant: the evening rush hour ends at 19
PredictDelayFactorShortRush(hour) ==
    IF (7 <= hour /\ hour <= 9) \/ (17 <= hour /\ hour <= 19) THEN 3
    ELSE IF 0 <= hour /\ hour <= 5 THEN 1
    ELSE 2

\* TrafficPredictor.predict_delay_factor, times 2
PredictDelayFactor(hour) ==
    IF (7 <= hour /\ hour <= 9) \/ (17 <= hour /\ hour <= 20) THEN 3
    ELSE IF 0 <= hour /\ hour <= 5 THEN 1
    ELSE 2

\* edge_data.get('weight', 0)
EdgeWeight(edge_data) == IF "weight" \in DOMAIN edge_data THEN edge_data.weight ELSE 0

\* edge_data.get('type', 'walk')
EdgeMode(edge_data) == IF "type" \in DOMAIN edge_data THEN edge_data.type ELSE "walk"

\* edge_data.get('route_name', '')
EdgeRouteName(edge_data) ==
    IF "route_name" \in DOMAIN edge_data THEN edge_data.route_name ELSE ""

\* FastestStrategy.calculate_cost: (seconds * multiplier) / 60.0
FastestCost(edge_data, hour) ==
    LET seconds == EdgeWeight(edge_data)
        mode == EdgeMode(edge_data)
        multiplier == IF mode \in {"bus", "minibus"} THEN PredictDelayFactor(hour) ELSE 2
    IN  seconds * multiplier * 10

\* mutant: bus and minibus are not penalised
ComfortCostBusUnpenalised(edge_data, hour) ==
    LET base_cost == FastestCost(edge_data, hour)
        mode == EdgeMode(edge_data)
    IN  IF mode \in {"metro", "rail", "tram"} THEN (base_cost * 8) \div 10
        ELSE base_cost

\* ComfortStrategy.calculate_cost
ComfortCost(edge_data, hour) ==
    LET base_cost == FastestCost(edge_data, hour)
        mode == EdgeMode(edge_data)
    IN  IF mode \in {"metro", "rail", "tram"} THEN (base_cost * 8) \div 10
        ELSE IF mode \in {"bus", "minibus"} THEN (base_cost * 12) \div 10
        ELSE base_cost

\* mutant: walking is not discounted
EconomicCostWalkFull(edge_data, hour) == FastestCost(edge_data, hour)

\* EconomicStrategy.calculate_cost
EconomicCost(edge_data, hour) ==
    LET base_cost == FastestCost(edge_data, hour)
        mode == EdgeMode(edge_data)
    IN  IF mode = "walk" THEN (base_cost * 5) \div 10 ELSE base_cost

StrategyNames == {"FastestStrategy", "ComfortStrategy", "EconomicStrategy"}

\* strategy.calculate_cost(edge_data, curr_dt), dispatched on the class
CalculateCost(strat, edge_data, hour) ==
    CASE strat = "FastestStrategy" -> FastestCost(edge_data, hour)
      [] strat = "ComfortStrategy" -> ComfortCost(edge_data, hour)
      [] strat = "EconomicStrategy" -> EconomicCost(edge_data, hour)

\* strategies.get(strategy_type, FastestStrategy())
SelectStrategy(strategy_type) ==
    CASE strategy_type = "fastest" -> "FastestStrategy"
      [] strategy_type = "comfort" -> "ComfortStrategy"
      [] strategy_type = "economic" -> "EconomicStrategy"
      [] OTHER -> "FastestStrategy"

\* math.sqrt on the squares the position grid produces
Sqrt(n) == CHOOSE r \in 0..n : r * r = n

\* heuristic(u_id) inside find_route: planar distance to end_pos, times 100
Heuristic(g, end_id, u_id) ==
    LET end_pos == GetNodePos(g, end_id)
        u_pos == GetNodePos(g, u_id)
        dx == u_pos[1] - end_pos[1]
        dy == u_pos[2] - end_pos[2]
    IN  Sqrt(dx * dx + dy * dy) * 1200

-----------------------------------------------------------------------------
(* Departure time: step 2 of find_advanced_path *)

Digits == {"0", "1", "2", "3", "4", "5", "6", "7", "8", "9"}

DigitValue(c) == Ord(c) - 1

\* str.split(":")
RECURSIVE Split(_)
Split(s) ==
    IF \A i \in 1..Len(s) : s[i] # ":" THEN <<s>>
    ELSE LET k == CHOOSE i \in 1..Len(s) : s[i] = ":" /\ \A j \in 1..(i - 1) : s[j] # ":"
         IN  <<SubSeq(s, 1, k - 1)>> \o Split(SubSeq(s, k + 1, Len(s)))

\* int(field) succeeds (fields are made of digits and other characters of the
\* alphabet; signs and blanks are not in it)
IsInt(field) == Len(field) > 0 /\ \A i \in 1..Len(field) : field[i] \in Digits

\* int(field)
RECURSIVE ParseInt(_)
ParseInt(field) ==
    IF Len(field) = 0 THEN 0
    ELSE 10 * ParseInt(SubSeq(field, 1, Len(field) - 1)) + DigitValue(field[Len(field)])

\* mutant: two int fields, whatever their values
TimeParsesAnyInts(time_str) ==
    LET fields == Split(time_str)
    IN  /\ Len(fields) = 2
        /\ IsInt(fields[1]) /\ IsInt(fields[2])

\* the try block succeeds: two int fields that datetime.replace accepts
TimeParses(time_str) ==
    LET fields == Split(time_str)
    IN  /\ Len(fields) = 2
        /\ IsInt(fields[1]) /\ IsInt(fields[2])
        /\ ParseInt(fields[1]) \in 0..23
        /\ ParseInt(fields[2]) \in 0..59

\* mutant: the departure time is never read
TimeSettingClockOnly(time_str, clock_hour) == clock_hour

\* now.hour after step 2; clock_hour is datetime.now().hour
TimeSetting(time_str, clock_hour) ==
    IF time_str # None /\ time_str # <<>> /\ TimeParses(time_str)
    THEN ParseInt(Split(time_str)[1])
    ELSE clock_hour

-----------------------------------------------------------------------------
(* find_route *)

NoRoute == [found |-> FALSE]

\* RouteStep; u and v are the ids of the edge the step was made from (history)
RouteStep(g, u, v, edge_data, step_cost) ==
    [from_node |-> GetNodeName(g, u),
     to_node |-> GetNodeName(g, v),
     mode |-> EdgeMode(edge_data),
     route_name |-> EdgeRouteName(edge_data),
     duration_mins |-> step_cost,
     u |-> u, v |-> v]

\* a heap entry (f_score, node_id, path_history, current_time, g_score); the
\* current_time is start_time in every entry and is kept in now_hour
Entry(f, u, path, g) == [f |-> f, u |-> u, path |-> path, g |-> g]

\* the queue and table find_route starts from
InitialQueue(start_id) == {Entry(0, start_id, <<>>, 0)}

\* mutant: a stop is pushed only the first time it is seen
ImprovesFirstOnly(new_g, mc, v) == v \notin DOMAIN mc

\* mutant: `new_g <= min_costs.get(v, float('inf'))`
ImprovesOrEqual(new_g, mc, v) == v \notin DOMAIN mc \/ new_g <= mc[v]

\* mutant: every neighbour is pushed, whatever min_costs holds
ImprovesAlways(new_g, mc, v) == TRUE

\* `new_g < min_costs.get(v, float('inf'))`
Improves(new_g, mc, v) == v \notin DOMAIN mc \/ new_g < mc[v]

\* mutant: no popped entry is taken for stale
IsStaleNever(g_score, mc, u) == FALSE

\* `g > min_costs.get(u, float('inf'))`
IsStale(g_score, mc, u) == u \in DOMAIN mc /\ g_score > mc[u]

\* mutant: `while True:`
LoopContinuesAlways(q) == TRUE

\* `while queue:`
LoopContinues(q) == q # {}

\* mutant: the breaker compares with MAX_VISIT + 1
BreakerTripsLate(count) == count > MAX_VISIT + 1

\* `if visited_count > MAX_VISIT: break`
BreakerTrips(count) == count > MAX_VISIT

\* tuple comparison on (f_score, node_id)
EntryLess(a, b) == a.f < b.f \/ (a.f = b.f /\ StrLess(a.u, b.u))

IsProperPrefix(p, q) == Len(p) < Len(q) /\ SubSeq(q, 1, Len(p)) = p

\* the entries no other entry precedes on (f_score, node_id)
MinEntries(q) == {e \in q : \A o \in q : ~EntryLess(o, e)}

\* heappop can order the minimal entries: equal (f, node) falls through to
\* the paths, lists of RouteStep, ordered only when one is a prefix of the other
PopDefined(q) ==
    \E e \in MinEntries(q) : \A o \in MinEntries(q) \ {e} : IsProperPrefix(e.path, o.path)

\* heapq.heappop(queue)
HeapTop(q) ==
    CHOOSE e \in MinEntries(q) : \A o \in MinEntries(q) \ {e} : IsProperPrefix(e.path, o.path)

\* the neighbours v of u whose new_g improves min_costs (lines 160-165)
Improved(g, strat, hour, mc, e) ==
    {v \in Successors(g, e.u) :
        Improves(e.g + CalculateCost(strat, g.adj[<<e.u, v>>], hour), mc, v)}

\* mutant: the step is pushed without the path history, [new_step]
PushedWithoutHistory(g, strat, hour, end_id, e, v) ==
    LET edge_data == g.adj[<<e.u, v>>]
        step_cost == CalculateCost(strat, edge_data, hour)
        new_g == e.g + step_cost
    IN  Entry(new_g + Heuristic(g, end_id, v), v,
              <<RouteStep(g, e.u, v, edge_data, step_cost)>>, new_g)

\* the entry pushed for neighbour v (lines 162-176)
Pushed(g, strat, hour, end_id, e, v) ==
    LET edge_data == g.adj[<<e.u, v>>]
        step_cost == CalculateCost(strat, edge_data, hour)
        new_g == e.g + step_cost
    IN  Entry(new_g + Heuristic(g, end_id, v), v,
              Append(e.path, RouteStep(g, e.u, v, edge_data, step_cost)), new_g)

\* RouteResult
RouteResult(strat, g_score, path) ==
    [found |-> TRUE,
     strategy_name |-> <<"Advanced (", strat, ")">>,
     total_duration_mins |-> g_score,
     path |-> path]

-----------------------------------------------------------------------------
(* find_advanced_path *)

\* mutant: the fuzzy lookup is tried before the id
ResolveStopByNameFirst(g, ident) ==
    LET found == FindNodeByName(g, ident)
    IN  IF found # None /\ found # <<>> THEN found
        ELSE IF HasNode(g, ident) THEN ident ELSE None

\* step 1: the id as given when it is a node, else the fuzzy lookup; None when
\* neither finds a node
ResolveStop(g, ident) ==
    IF HasNode(g, ident) THEN ident
    ELSE LET found == FindNodeByName(g, ident)
         IN  IF found # None /\ found # <<>> THEN found ELSE None

ErrorResult(message) == [status |-> "error", message |-> message]

\* mutant: the message does not carry the identifier
StartNotFoundAnonymous(start_node) ==
    ErrorResult([text |-> "Start '{}' not found.", ident |-> <<>>])

StartNotFound(start_node) ==
    ErrorResult([text |-> "Start '{}' not found.", ident |-> start_node])

EndNotFound(end_node) ==
    ErrorResult([text |-> "End '{}' not found.", ident |-> end_node])

NoRouteMessage == [text |-> "No route found via Advanced Engine."]

\* round(x, 2) of a cost, in 1/100 minute (ties to even)
Round2(x) ==
    LET q == x \div 12
        r == x % 12
    IN  IF r < 6 THEN q
        ELSE IF r > 6 THEN q + 1
        ELSE IF q % 2 = 0 THEN q ELSE q + 1

\* mutant: the ARRIVED segment is left out
RouteSegmentsNoArrival(path) ==
    [i \in 1..Len(path) |->
        [from_stop |-> [name |-> path[i].from_node],
         transport |-> [type |-> path[i].mode,
                        route_name |-> path[i].route_name,
                        duration_sec |-> path[i].duration_mins * 60]]]

\* step 5: one segment per step, then the ARRIVED segment when there is a step
RouteSegments(path) ==
    [i \in 1..Len(path) |->
        [from_stop |-> [name |-> path[i].from_node],
         transport |-> [type |-> path[i].mode,
                        route_name |-> path[i].route_name,
                        duration_sec |-> path[i].duration_mins * 60]]]
    \o (IF Len(path) > 0
        THEN <<[from_stop |-> [name |-> path[Len(path)].to_node],
                transport |-> [arrived |-> "ARRIVED"]]>>
        ELSE <<>>)

\* mutant: no `if not result` guard, the formatting raises on None
FormatResultUnguarded(r, strat) ==
    IF ~r.found THEN [status |-> "raised", message |-> [text |-> "AttributeError"]]
    ELSE [status |-> "success",
          total_time_min |-> Round2(r.total_duration_mins),
          stops |-> Len(r.path),
          route |-> RouteSegments(r.path),
          engine |-> "Advanced A* v3.1",
          strategy |-> strat]

\* mutant: `if not result.path`, a route without steps is reported as no route
FormatResultEmptyIsError(r, strat) ==
    IF ~r.found \/ Len(r.path) = 0 THEN ErrorResult(NoRouteMessage)
    ELSE [status |-> "success",
          total_time_min |-> Round2(r.total_duration_mins),
          stops |-> Len(r.path),
          route |-> RouteSegments(r.path),
          engine |-> "Advanced A* v3.1",
          strategy |-> strat]

\* steps 4-5: the dictionary find_advanced_path returns for find_route's result
FormatResult(r, strat) ==
    IF ~r.found THEN ErrorResult(NoRouteMessage)
    ELSE [status |-> "success",
          total_time_min |-> Round2(r.total_duration_mins),
          stops |-> Len(r.path),
          route |-> RouteSegments(r.path),
          engine |-> "Advanced A* v3.1",
          strategy |-> strat]

-----------------------------------------------------------------------------
(* State machine *)

NoArgs == [start_node |-> None, end_node |-> None, time_str |-> None,
           strategy_type |-> "", clock_hour |-> 0]

NoResult == [status |-> "none"]

NoPrev == [args |-> NoArgs, result |-> NoResult, route |-> NoRoute]

\* no request has been answered
NoResponse == [status_code |-> 0]

\* the graph was loaded from the pickle; build_graph is not running
NoIngest == edges_df = <<>> /\ row_index = 0

\* no thread runs beside the query
NoThreads ==
    /\ graph_file = TRUE
    /\ graph_cache = <<"None">>
    /\ instance = <<"None">>
    /\ loads = 0
    /\ threads = <<>>
    /\ searches = <<>>

\* the locals of an invocation that has not reached find_route's loop
Idle ==
    /\ real_start = None /\ real_end = None /\ now_hour = 0 /\ strategy = ""
    /\ queue = {} /\ min_costs = <<>> /\ visited_count = 0 /\ pops = 0
    /\ expanded = 0 /\ route = NoRoute

\* find_advanced_path up to the loop of find_route (lines 180-222, 128-146);
\* clock_hour is the hour datetime.now() reads
Invoke(start_node, end_node, time_str, strategy_type, clock_hour) ==
    LET rs == ResolveStop(G, start_node)
        re == ResolveStop(G, end_node)
        strat == SelectStrategy(strategy_type)
    IN  /\ args' = [start_node |-> start_node, end_node |-> end_node,
                    time_str |-> time_str, strategy_type |-> strategy_type,
                    clock_hour |-> clock_hour]
        /\ pops' = 0 /\ expanded' = 0 /\ visited_count' = 0
        /\ IF rs = None \/ re = None
           THEN /\ result' = IF rs = None THEN StartNotFound(start_node)
                             ELSE EndNotFound(end_node)
                /\ pc' = "done"
                /\ real_start' = None /\ real_end' = None /\ now_hour' = 0
                /\ strategy' = "" /\ queue' = {} /\ min_costs' = <<>>
                /\ route' = NoRoute
           ELSE /\ real_start' = rs /\ real_end' = re
                /\ now_hour' = TimeSetting(time_str, clock_hour)
                /\ strategy' = strat
                /\ route' = NoRoute
                /\ IF ~HasNode(G, rs) \/ ~HasNode(G, re)
                   THEN /\ queue' = {} /\ min_costs' = <<>>
                        /\ result' = FormatResult(NoRoute, strat)
                        /\ pc' = "done"
                   ELSE /\ queue' = InitialQueue(rs)
                        /\ min_costs' = (rs :> 0)
                        /\ result' = NoResult
                        /\ pc' = "search"

\* find_route returns r and find_advanced_path formats it (lines 222-252)
Return(r) ==
    /\ route' = r
    /\ result' = FormatResult(r, strategy)
    /\ pc' = "done"

\* one iteration of `while queue:` (lines 148-176), or the loop's exit
SearchStep ==
    /\ pc = "search"
    /\ UNCHANGED concurrent_vars
    /\ UNCHANGED <<G, args, real_start, real_end, now_hour, strategy, prev, response,
                   edges_df, row_index>>
    /\ IF ~LoopContinues(queue)
       THEN /\ Return(NoRoute)
            /\ UNCHANGED <<queue, min_costs, visited_count, pops, expanded>>
       ELSE IF ~PopDefined(queue)
       THEN \* heappop raises (TypeError comparing two RouteStep, IndexError on
            \* an empty heap) out of find_advanced_path
            /\ pc' = "raised"
            /\ UNCHANGED <<queue, min_costs, visited_count, pops, expanded, route, result>>
       ELSE LET e == HeapTop(queue)
                rest == queue \ {e}
            IN  /\ pops' = pops + 1
                /\ IF e.u = real_end
                   THEN /\ Return(RouteResult(strategy, e.g, e.path))
                        /\ queue' = rest
                        /\ UNCHANGED <<min_costs, visited_count, expanded>>
                   ELSE IF IsStale(e.g, min_costs, e.u)
                   THEN /\ queue' = rest
                        /\ UNCHANGED <<min_costs, visited_count, expanded, route, result, pc>>
                   ELSE /\ visited_count' = visited_count + 1
                        /\ IF BreakerTrips(visited_count + 1)
                           THEN /\ Return(NoRoute)
                                /\ queue' = rest
                                /\ UNCHANGED <<min_costs, expanded>>
                           ELSE LET imp == Improved(G, strategy, now_hour, min_costs, e)
                                IN  /\ expanded' = expanded + 1
                                    /\ min_costs' =
                                         [v \in DOMAIN min_costs \cup imp |->
                                            IF v \in imp
                                            THEN e.g + CalculateCost(strategy, G.adj[<<e.u, v>>], now_hour)
                                            ELSE min_costs[v]]
                                    /\ queue' = rest \cup
                                         {Pushed(G, strategy, now_hour, real_end, e, v) : v \in imp}
                                    /\ UNCHANGED <<route, result, pc>>

\* the hours datetime.now() is read at: night, rush hour, midday
ClockHours == {3, 8, 12}

StrategyTypes == {"fastest", "comfort", "economic"}

\* a route query between two stop ids, no departure time given
Call ==
    /\ pc = "idle"
    /\ \E s \in Nodes, e \in Nodes, st \in StrategyTypes, c \in ClockHours :
          Invoke(s, e, None, st, c)
    /\ UNCHANGED concurrent_vars
    /\ UNCHANGED <<G, prev, response, edges_df, row_index>>

Init ==
    /\ G \in {Graph(DefaultOrder, adj) : adj \in Adjacencies}
    /\ pc = "idle"
    /\ args = NoArgs
    /\ Idle
    /\ result = NoResult
    /\ prev = NoPrev
    /\ response = NoResponse
    /\ NoIngest
    /\ NoThreads

Next == Call \/ SearchStep

Spec == Init /\ [][Next]_vars

-----------------------------------------------------------------------------
(* Queries through the adapter: identifiers that are ids, names, parts of    *)
(* names or nothing; departure times that parse and that do not; graphs     *)
(* whose nodes were stored in different orders; a second query after the    *)
(* first.                                                                   *)

\* storage (insertion) orders of the same four nodes
StorageOrders ==
    {DefaultOrder, <<idB, idA, idC, idD>>, <<idD, idC, idB, idA>>}

\* no edge, or one edge between A and B
AdapterAdjacencies ==
    {<<>>} \cup {p :> k : p \in {<<idA, idB>>, <<idB, idA>>}, k \in EdgeKinds}

\* start_node: an id, a part of several names ("a" is in "Ab" and "Ba"), a
\* differently cased name, a string in no name, the empty string
StartIdentifiers == {idA, <<"a">>, <<"A", "B">>, <<"x">>, <<>>}

\* end_node: an id that is also part of three names once lowercased, a part of
\* three names, a string in no name
EndIdentifiers == {idB, <<"b">>, <<"x">>}

\* time_str: absent, "08:00", and strings the try block rejects: hour out of
\* range, minute out of range, one field, three fields, a non-numeric field,
\* the empty string
TimeStrings ==
    { None,
      <<"0", "8", ":", "0", "0">>,
      <<"2", "5", ":", "0", "0">>,
      <<"1", "2", ":", "6", "0">>,
      <<"1", "2">>,
      <<"1", ":", "2", ":", "3">>,
      <<"x", ":", "0", "0">>,
      <<>> }

\* strategy_type: two keys of the strategies dictionary and a key not in it
AdapterStrategyTypes == {"fastest", "economic", "scenic"}

\* a first query
CallAdapter ==
    /\ pc = "idle"
    /\ \E s \in StartIdentifiers, e \in EndIdentifiers, t \in TimeStrings,
          st \in AdapterStrategyTypes, c \in ClockHours :
          Invoke(s, e, t, st, c)
    /\ UNCHANGED concurrent_vars
    /\ UNCHANGED <<G, prev, response, edges_df, row_index>>

\* a second query for the same stops and strategy against the same graph, at
\* whatever hour the clock then shows, with the same time_str or with none
Again ==
    /\ pc = "done"
    /\ prev = NoPrev
    /\ prev' = [args |-> args, result |-> result, route |-> route]
    /\ \E t \in {args.time_str, None}, c \in ClockHours :
          Invoke(args.start_node, args.end_node, t, args.strategy_type, c)
    /\ UNCHANGED concurrent_vars
    /\ UNCHANGED <<G, response, edges_df, row_index>>

InitAdapter ==
    /\ G \in {Graph(order, adj) : order \in StorageOrders, adj \in AdapterAdjacencies}
    /\ pc = "idle"
    /\ args = NoArgs
    /\ Idle
    /\ result = NoResult
    /\ prev = NoPrev
    /\ response = NoResponse
    /\ NoIngest
    /\ NoThreads

NextAdapter == CallAdapter \/ Again \/ SearchStep

SpecAdapter == InitAdapter /\ [][NextAdapter]_vars

-----------------------------------------------------------------------------
(* Queries at every hour of the day over edges of every mode: a direct edge  *)
(* A -> D beside a chain A -> m -> D whose intermediate stop m is near the   *)
(* end (B) or far from it (C).                                              *)

\* the hours of a day
Hours == 0..23

\* the time_str "HH:00" of an hour
HourString(hour) ==
    <<Alphabet[(hour \div 10) + 1], Alphabet[(hour % 10) + 1], ":", "0", "0">>

\* the modes the strategies tell apart, and three they do not
StrategyModes ==
    {"bus", "minibus", "metro", "rail", "tram", "walk", "taxi", "ferry"}

\* attribute dictionaries of the direct edge: 600 s in every mode, a
\* dictionary without 'type', one without 'weight', and one whose weight is
\* below zero (the strategies read whatever the stored dictionary holds)
DirectEdgeKinds ==
    {[weight |-> 600, type |-> m, route_name |-> "R1"] : m \in StrategyModes}
    \cup {[weight |-> 600], [type |-> "bus"], [weight |-> 0 - 60, type |-> "bus"]}

\* attribute dictionaries of the two edges of the chain
ChainEdgeKinds ==
    { [weight |-> 360, type |-> "metro", route_name |-> "M2"],
      [weight |-> 450, type |-> "walk"] }

\* direct edge or none, chain through B or through C or none
StrategyAdjacencies ==
    LET directs == {<<>>} \cup {<<idA, idD>> :> k : k \in DirectEdgeKinds}
        chains == {<<>>} \cup
                  {(<<idA, m>> :> k) @@ (<<m, idD>> :> k) :
                       m \in {idB, idC}, k \in ChainEdgeKinds}
    IN  {d @@ c : d \in directs, c \in chains}

\* a query from A to D departing at a full hour
CallStrategy ==
    /\ pc = "idle"
    /\ \E hour \in Hours, st \in StrategyTypes, c \in ClockHours :
          Invoke(idA, idD, HourString(hour), st, c)
    /\ UNCHANGED concurrent_vars
    /\ UNCHANGED <<G, prev, response, edges_df, row_index>>

InitStrategy ==
    /\ G \in {Graph(DefaultOrder, adj) : adj \in StrategyAdjacencies}
    /\ pc = "idle"
    /\ args = NoArgs
    /\ Idle
    /\ result = NoResult
    /\ prev = NoPrev
    /\ response = NoResponse
    /\ NoIngest
    /\ NoThreads

NextStrategy == CallStrategy \/ SearchStep

SpecStrategy == InitStrategy /\ [][NextStrategy]_vars

-----------------------------------------------------------------------------
(* core/graph.py: find_shortest_path, and the /api/route endpoint of         *)
(* api/index.py that serves it                                              *)

\* the weight networkx reads from an edge: the 'weight' attribute, 1 without it
NxWeight(edge_data) == IF "weight" \in DOMAIN edge_data THEN edge_data.weight ELSE 1

\* the simple paths from source to target, as sequences of nodes
SimplePaths(g, source, target) ==
    {p \in UNION {[1..n -> Nodes] : n \in 1..Cardinality(Nodes)} :
        /\ p[1] = source /\ p[Len(p)] = target
        /\ \A i, j \in 1..Len(p) : i # j => p[i] # p[j]
        /\ \A i \in 1..(Len(p) - 1) : <<p[i], p[i + 1]>> \in DOMAIN g.adj}

\* nx.shortest_path_length along one path
RECURSIVE PathWeight(_, _)
PathWeight(g, p) ==
    IF Len(p) <= 1 THEN 0
    ELSE PathWeight(g, SubSeq(p, 1, Len(p) - 1))
           + NxWeight(g.adj[<<p[Len(p) - 1], p[Len(p)]>>])

\* the paths nx.shortest_path may return: it returns one path of least weight,
\* which one among several is decided inside networkx
ShortestPaths(g, source, target) ==
    LET paths == SimplePaths(g, source, target)
    IN  {p \in paths : \A q \in paths : PathWeight(g, p) <= PathWeight(g, q)}

\* `int(departure_time.split(":")[0])` raises ValueError
ShortestHourRaises(departure_time) ==
    /\ departure_time # None /\ departure_time # <<>>
    /\ ~IsInt(Split(departure_time)[1])

\* hour of find_shortest_path (lines 38-41)
ShortestHour(departure_time, clock_hour) ==
    IF departure_time # None /\ departure_time # <<>>
    THEN ParseInt(Split(departure_time)[1])
    ELSE clock_hour

\* round(n / d, 2) in hundredths, for n already in hundredths (ties to even)
RoundHalfEven(n, d) ==
    LET q == n \div d
        r == n % d
    IN  IF 2 * r < d THEN q
        ELSE IF 2 * r > d THEN q + 1
        ELSE IF q % 2 = 0 THEN q ELSE q + 1

StartNodeNotFound(start_node) ==
    [error |-> [text |-> "Start node {} not found.", ident |-> start_node]]

EndNodeNotFound(end_node) ==
    [error |-> [text |-> "End node {} not found.", ident |-> end_node]]

NoRoutePossible ==
    [status |-> "error",
     message |-> [text |-> "No route possible between these stops."]]

\* "from_stop" of a segment; placeholder is 'nil' on the way, 'Unknown' at the end
FromStop(g, node_id, placeholder) ==
    [id |-> node_id,
     name |-> IF "name" \in DOMAIN g.nodes[node_id] THEN g.nodes[node_id].name
              ELSE placeholder,
     coords |-> IF "pos" \in DOMAIN g.nodes[node_id] THEN g.nodes[node_id].pos
                ELSE None]

\* route_segments of find_shortest_path (lines 58-93)
ShortestSegments(g, path_nodes) ==
    [i \in 1..(Len(path_nodes) - 1) |->
        LET edge_data == g.adj[<<path_nodes[i], path_nodes[i + 1]>>]
        IN  [from_stop |-> FromStop(g, path_nodes[i], <<"nil">>),
             transport |->
                [type |-> IF "type" \in DOMAIN edge_data THEN edge_data.type
                          ELSE "Unknown",
                 route_name |-> EdgeRouteName(edge_data),
                 duration_sec |-> EdgeWeight(edge_data)]]]
    \o <<[from_stop |-> FromStop(g, path_nodes[Len(path_nodes)], Unknown),
          transport |-> [arrived |-> "ARRIVED"]]>>

\* the success dictionary (lines 95-101); delay_factor is kept times 2
ShortestSuccess(g, path_nodes, delay_factor) ==
    [status |-> "success",
     stops |-> Len(path_nodes),
     total_time_min |-> RoundHalfEven(PathWeight(g, path_nodes) * delay_factor * 100, 120),
     traffic_multiplier |-> delay_factor,
     route |-> ShortestSegments(g, path_nodes)]

\* what find_shortest_path may return when it does not raise
ShortestPathResults(g, start_node, end_node, departure_time, clock_hour) ==
    LET delay_factor == PredictDelayFactor(ShortestHour(departure_time, clock_hour))
    IN  IF ~HasNode(g, start_node) THEN {StartNodeNotFound(start_node)}
        ELSE IF ~HasNode(g, end_node) THEN {EndNodeNotFound(end_node)}
        ELSE IF ShortestPaths(g, start_node, end_node) = {} THEN {NoRoutePossible}
        ELSE {ShortestSuccess(g, p, delay_factor) :
                 p \in ShortestPaths(g, start_node, end_node)}

\* get_route: 404 when the result has the key "error", else the result itself
RouteResponse(r) ==
    IF "error" \in DOMAIN r THEN [status_code |-> 404, detail |-> r.error]
    ELSE [status_code |-> 200, body |-> r]

\* start and end of a request: stop ids and a string that is no stop id
RouteStops == {idA, idB, idD, <<"x">>}

\* time of a request: absent, "08:00", a lone hour, a non-numeric hour
RouteTimes ==
    {None, <<"0", "8", ":", "0", "0">>, <<"1", "2">>, <<"x", ":", "0", "0">>}

\* GET /api/route?start=..&end=..&time=.. : get_route calls find_shortest_path;
\* an exception leaving get_route is answered by the framework with status 500
GetRoute ==
    /\ pc = "idle"
    /\ \E start \in RouteStops, end \in RouteStops, time \in RouteTimes,
          c \in ClockHours :
          /\ args' = [start_node |-> start, end_node |-> end, time_str |-> time,
                      strategy_type |-> "", clock_hour |-> c]
          /\ IF ShortestHourRaises(time)
             THEN /\ pc' = "raised"
                  /\ result' = NoResult
                  /\ response' = [status_code |-> 500]
             ELSE /\ pc' = "done"
                  /\ \E r \in ShortestPathResults(G, start, end, time, c) :
                        /\ result' = r
                        /\ response' = RouteResponse(r)
    /\ UNCHANGED concurrent_vars
    /\ UNCHANGED <<G, real_start, real_end, now_hour, strategy, queue, min_costs,
                   visited_count, pops, expanded, route, prev, edges_df, row_index>>

\* both engines on the same graphs: requests to /api/route and calls of
\* find_advanced_path
NextApi == GetRoute \/ Call \/ SearchStep

SpecApi == Init /\ [][NextApi]_vars

-----------------------------------------------------------------------------
(* etl/ingest_gtfs.py: build_graph from the trip segments on, then           *)
(* add_walking_transfers.  Latitudes are in units of 1/10000 degree; the     *)
(* stops of the model lie on one meridian.                                   *)

\* ROUTE_TYPE_MAP.get(raw_type, 'bus')
RouteTypeMap(raw_type) ==
    CASE raw_type = 0 -> "tram"
      [] raw_type = 1 -> "metro"
      [] raw_type = 2 -> "rail"
      [] raw_type = 3 -> "bus"
      [] raw_type = 4 -> "ferry"
      [] raw_type = 5 -> "cable_tram"
      [] raw_type = 6 -> "gondola"
      [] raw_type = 7 -> "funicular"
      [] raw_type = 9 -> "minibus"
      [] raw_type = 10 -> "taxi_minibus"
      [] raw_type = 11 -> "trolleybus"
      [] raw_type = 12 -> "monorail"
      [] OTHER -> "bus"

\* stops_df: A and B are 0.0020 degree (222 m) apart, C is 0.1 degree away,
\* D is 0.0135 degree (1501 m) from A and 0.0115 degree (1279 m) from B
StopsDf ==
    << [stop_id |-> idA, stop_name |-> <<"A", "b">>, stop_lat |-> 410000, stop_lon |-> 290000],
       [stop_id |-> idB, stop_name |-> <<"B", "a">>, stop_lat |-> 410020, stop_lon |-> 290000],
       [stop_id |-> idC, stop_name |-> <<"C", "a">>, stop_lat |-> 411000, stop_lon |-> 290000],
       [stop_id |-> idD, stop_name |-> <<"D", "b">>, stop_lat |-> 410135, stop_lon |-> 290000] >>

\* the DiGraph after the loop over stops (lines 169-177): nodes, no edges
StopsGraph ==
    [order |-> [i \in 1..Len(StopsDf) |-> StopsDf[i].stop_id],
     nodes |-> [n \in {StopsDf[i].stop_id : i \in 1..Len(StopsDf)} |->
                  LET i == CHOOSE k \in 1..Len(StopsDf) : StopsDf[k].stop_id = n
                  IN  [name |-> StopsDf[i].stop_name,
                       pos |-> <<StopsDf[i].stop_lat, StopsDf[i].stop_lon>>]],
     adj |-> <<>>]

\* the rows edges_df is made of: a segment between near stops or far stops,
\* arriving before it departs, after 60 s or after 300 s, on a metro line, a
\* bus line, or a route whose type is not in ROUTE_TYPE_MAP
TripRows ==
    {[stop_id |-> p[1], next_stop_id |-> p[2], seconds_dep |-> 3600,
      next_arr_seconds |-> 3600 + t, route_type |-> r[1], route_short_name |-> r[2]] :
        p \in {<<idA, idB>>, <<idA, idC>>},
        t \in {0 - 30, 60, 300},
        r \in {<<1, "M2">>, <<3, "500T">>, <<99, "X9">>}}

\* abs()
Abs(x) == IF x >= 0 THEN x ELSE 0 - x

\* haversine in millimetres between two stops of one meridian: R * dphi
Haversine(lat1, lon1, lat2, lon2) == Abs(lat1 - lat2) * 11119

\* one iteration of the loop over edges_df (lines 212-236) on adjacency adj
WithTrip(adj, trip) ==
    LET travel_time == trip.next_arr_seconds - trip.seconds_dep
        edge == <<trip.stop_id, trip.next_stop_id>>
        data == [weight |-> travel_time,
                 type |-> RouteTypeMap(trip.route_type),
                 route_name |-> trip.route_short_name]
    IN  IF travel_time < 0 THEN adj
        ELSE IF edge \in DOMAIN adj
        THEN IF travel_time < adj[edge].weight
             THEN [adj EXCEPT ![edge] = data]
             ELSE adj
        ELSE adj @@ (edge :> data)

\* the pairs i < j of stops the loops of add_walking_transfers link: those that
\* pass the coarse filter on the coordinates (0.01 degree) and whose distance
\* is at most max_dist_meters
NearPairs(max_dist_meters) ==
    {<<i, j>> \in (1..Len(StopsDf)) \X (1..Len(StopsDf)) :
        /\ i < j
        /\ ~ \/ Abs(StopsDf[i].stop_lat - StopsDf[j].stop_lat) > 100
              \/ Abs(StopsDf[i].stop_lon - StopsDf[j].stop_lon) > 100
        /\ Haversine(StopsDf[i].stop_lat, StopsDf[i].stop_lon,
                     StopsDf[j].stop_lat, StopsDf[j].stop_lon) <= max_dist_meters * 1000}

\* walk_time = int(dist / walk_speed_mps), walk_speed_mps = 1.2
WalkTime(i, j) ==
    Haversine(StopsDf[i].stop_lat, StopsDf[i].stop_lon,
              StopsDf[j].stop_lat, StopsDf[j].stop_lon) \div 1200

\* a variant that links each pair from the earlier stop to the later one only
WalkingTransfersOneWay(max_dist_meters) ==
    [e \in {<<StopsDf[p[1]].stop_id, StopsDf[p[2]].stop_id>> : p \in NearPairs(max_dist_meters)} |->
        LET p == CHOOSE q \in NearPairs(max_dist_meters) :
                    e = <<StopsDf[q[1]].stop_id, StopsDf[q[2]].stop_id>>
        IN  WalkTime(p[1], p[2])]

\* the ordered pairs add_walking_transfers links, with their walk_time
WalkingTransfers(max_dist_meters) ==
    [e \in UNION {{<<StopsDf[p[1]].stop_id, StopsDf[p[2]].stop_id>>,
                   <<StopsDf[p[2]].stop_id, StopsDf[p[1]].stop_id>>} :
                      p \in NearPairs(max_dist_meters)} |->
        LET p == CHOOSE q \in NearPairs(max_dist_meters) :
                    e \in {<<StopsDf[q[1]].stop_id, StopsDf[q[2]].stop_id>>,
                           <<StopsDf[q[2]].stop_id, StopsDf[q[1]].stop_id>>}
        IN  WalkTime(p[1], p[2])]

\* G.add_edge(u, v, weight=walk_time, type='walk'): the attributes given are
\* set, the other attributes of an existing edge stay
WithWalk(adj, walks) ==
    [e \in DOMAIN adj \cup DOMAIN walks |->
        IF e \notin DOMAIN walks THEN adj[e]
        ELSE IF e \in DOMAIN adj
        THEN [adj[e] EXCEPT !.weight = walks[e], !.type = "walk"]
        ELSE [weight |-> walks[e], type |-> "walk"]]

\* build_graph, lines 212-236: the next row of edges_df
IngestTrip ==
    /\ pc = "ingest"
    /\ row_index <= Len(edges_df)
    /\ G' = [G EXCEPT !.adj = WithTrip(G.adj, edges_df[row_index])]
    /\ row_index' = row_index + 1
    /\ UNCHANGED concurrent_vars
    /\ UNCHANGED <<pc, args, real_start, real_end, now_hour, strategy, queue,
                   min_costs, visited_count, pops, expanded, route, result, prev,
                   response, edges_df>>

\* build_graph, line 238: add_walking_transfers(G, stops), after the last row,
\* with the default max_dist_meters
AddWalkingTransfers ==
    /\ pc = "ingest"
    /\ row_index > Len(edges_df)
    /\ G' = [G EXCEPT !.adj = WithWalk(G.adj, WalkingTransfers(300))]
    /\ pc' = "built"
    /\ UNCHANGED concurrent_vars
    /\ UNCHANGED <<args, real_start, real_end, now_hour, strategy, queue,
                   min_costs, visited_count, pops, expanded, route, result, prev,
                   response, edges_df, row_index>>

\* the distances add_walking_transfers is called with
MaxDists == {300, 2000}

\* add_walking_transfers(G, stops_df, max_dist_meters) called by itself on the
\* graph of the stops, as the test of the walking edges does
CallAddWalkingTransfers ==
    /\ pc = "ingest"
    /\ row_index = 1
    /\ \E max_dist_meters \in MaxDists :
          /\ G' = [G EXCEPT !.adj = WithWalk(G.adj, WalkingTransfers(max_dist_meters))]
          /\ args' = [max_dist_meters |-> max_dist_meters]
    /\ pc' = "linked"
    /\ UNCHANGED concurrent_vars
    /\ UNCHANGED <<real_start, real_end, now_hour, strategy, queue,
                   min_costs, visited_count, pops, expanded, route, result, prev,
                   response, edges_df, row_index>>

InitIngest ==
    /\ G = StopsGraph
    /\ pc = "ingest"
    /\ edges_df \in UNION {[1..n -> TripRows] : n \in 0..MaxRows}
    /\ row_index = 1
    /\ NoThreads
    /\ args = NoArgs
    /\ Idle
    /\ result = NoResult
    /\ prev = NoPrev
    /\ response = NoResponse

NextIngest == IngestTrip \/ AddWalkingTransfers \/ CallAddWalkingTransfers

SpecIngest == InitIngest /\ [][NextIngest]_vars

-----------------------------------------------------------------------------
(* core/graph.py get_graph and GraphRepository.get_instance, called from     *)
(* threads: the request handlers of api/index.py are plain functions, which  *)
(* the server runs in a pool of threads.  A loaded graph object is           *)
(* identified by the number of the pickle.load call that made it.            *)

Threads == {"t1", "t2"}

\* the object the n-th pickle.load returned
LoadedGraph(n) == <<"DiGraph", n>>

\* a GraphRepository object whose G is g
Repository(g) == <<"GraphRepository", g>>

\* what a caller gets when get_graph raises
RuntimeError == <<"RuntimeError">>

\* a thread outside get_graph and get_instance; got lists what its calls
\* returned (history)
NoThread ==
    [pc |-> "idle", in_init |-> FALSE, self_G |-> None, calls |-> 0, got |-> <<>>]

\* a call of get_graph(), as find_shortest_path makes it
CallGetGraph(t) ==
    /\ threads[t].pc = "idle"
    /\ threads[t].calls < MaxCalls
    /\ threads' = [threads EXCEPT ![t].pc = "get_graph", ![t].in_init = FALSE,
                                  ![t].calls = @ + 1]
    /\ UNCHANGED <<G, query_vars, searches>>
    /\ UNCHANGED <<graph_file, graph_cache, instance, loads>>

\* get_graph, line 21: `if _graph_cache is None:`
GetGraphTest(t) ==
    /\ threads[t].pc = "get_graph"
    /\ threads' = [threads EXCEPT ![t].pc = IF graph_cache = None THEN "load" ELSE "return"]
    /\ UNCHANGED <<G, query_vars, searches>>
    /\ UNCHANGED <<graph_file, graph_cache, instance, loads>>

\* get_graph, lines 22-28: open the file and `_graph_cache = pickle.load(f)`, or
\* RuntimeError, which leaves get_graph and, from __init__, get_instance
GetGraphLoad(t) ==
    /\ threads[t].pc = "load"
    /\ IF graph_file
       THEN /\ loads' = loads + 1
            /\ graph_cache' = LoadedGraph(loads + 1)
            /\ threads' = [threads EXCEPT ![t].pc = "return"]
       ELSE /\ threads' = [threads EXCEPT ![t].pc = "idle", ![t].in_init = FALSE,
                                         ![t].got = Append(@, RuntimeError)]
            /\ UNCHANGED <<loads, graph_cache>>
    /\ UNCHANGED <<G, query_vars, searches>>
    /\ UNCHANGED <<graph_file, instance>>

\* get_graph, line 30: `return _graph_cache`, to the caller or to
\* GraphRepository.__init__ (`self.G = get_graph()`)
GetGraphReturn(t) ==
    /\ threads[t].pc = "return"
    /\ threads' = IF threads[t].in_init
                  THEN [threads EXCEPT ![t].pc = "assign", ![t].self_G = graph_cache]
                  ELSE [threads EXCEPT ![t].pc = "idle", ![t].got = Append(@, graph_cache)]
    /\ UNCHANGED <<G, query_vars, searches>>
    /\ UNCHANGED <<graph_file, graph_cache, instance, loads>>

\* a call of GraphRepository.get_instance(), as IstanbulRouter() makes it
CallGetInstance(t) ==
    /\ threads[t].pc = "idle"
    /\ threads[t].calls < MaxCalls
    /\ threads' = [threads EXCEPT ![t].pc = "get_instance", ![t].calls = @ + 1]
    /\ UNCHANGED <<G, query_vars, searches>>
    /\ UNCHANGED <<graph_file, graph_cache, instance, loads>>

\* get_instance, line 43: `if cls._instance is None:`, then cls() enters
\* __init__ and its get_graph()
InstanceTest(t) ==
    /\ threads[t].pc = "get_instance"
    /\ threads' = IF instance = None
                  THEN [threads EXCEPT ![t].pc = "get_graph", ![t].in_init = TRUE]
                  ELSE [threads EXCEPT ![t].pc = "instance_return"]
    /\ UNCHANGED <<G, query_vars, searches>>
    /\ UNCHANGED <<graph_file, graph_cache, instance, loads>>

\* get_instance, line 44: `cls._instance = cls()` once __init__ has returned
InstanceAssign(t) ==
    /\ threads[t].pc = "assign"
    /\ instance' = Repository(threads[t].self_G)
    /\ threads' = [threads EXCEPT ![t].pc = "instance_return", ![t].in_init = FALSE]
    /\ UNCHANGED <<G, query_vars, searches>>
    /\ UNCHANGED <<graph_file, graph_cache, loads>>

\* get_instance, line 45: `return cls._instance`; the caller reads its G
InstanceReturn(t) ==
    /\ threads[t].pc = "instance_return"
    /\ threads' = [threads EXCEPT ![t].pc = "idle", ![t].got = Append(@, instance[2])]
    /\ UNCHANGED <<G, query_vars, searches>>
    /\ UNCHANGED <<graph_file, graph_cache, instance, loads>>

InitLoad ==
    /\ G = Graph(DefaultOrder, <<>>)
    /\ pc = "idle"
    /\ args = NoArgs
    /\ Idle
    /\ result = NoResult
    /\ prev = NoPrev
    /\ response = NoResponse
    /\ NoIngest
    /\ graph_file \in BOOLEAN
    /\ graph_cache = None
    /\ instance = None
    /\ loads = 0
    /\ threads = [t \in Threads |-> NoThread]
    /\ searches = <<>>

NextLoad ==
    \E t \in Threads :
        \/ CallGetGraph(t)
        \/ GetGraphTest(t)
        \/ GetGraphLoad(t)
        \/ GetGraphReturn(t)
        \/ CallGetInstance(t)
        \/ InstanceTest(t)
        \/ InstanceAssign(t)
        \/ InstanceReturn(t)

SpecLoad == InitLoad /\ [][NextLoad]_vars

-----------------------------------------------------------------------------
(* find_route invocations that run beside one another in the threads of the  *)
(* server, over the one graph of the GraphRepository.  Each invocation has   *)
(* its own queue, min_costs, visited_count and paths (locals of find_route,  *)
(* lines 142-145).                                                           *)

\* a thread that has not called find_route
NoSearch ==
    [pc |-> "idle", start_id |-> None, end_id |-> None, start_hour |-> 0,
     strategy |-> "", queue |-> {}, min_costs |-> <<>>, visited_count |-> 0,
     route |-> NoRoute]

\* find_route, lines 128-145: the locals when the loop is reached, or the
\* return of None for a stop that is not in G
FindRouteEntry(g, start_id, end_id, start_hour, strat) ==
    IF ~HasNode(g, start_id) \/ ~HasNode(g, end_id)
    THEN [NoSearch EXCEPT !.pc = "done", !.start_id = start_id, !.end_id = end_id,
                          !.start_hour = start_hour, !.strategy = strat]
    ELSE [pc |-> "search", start_id |-> start_id, end_id |-> end_id,
          start_hour |-> start_hour, strategy |-> strat,
          queue |-> InitialQueue(start_id), min_costs |-> (start_id :> 0),
          visited_count |-> 0, route |-> NoRoute]

\* find_route, lines 148-177: one iteration of the loop on the locals s, where
\* table is the min_costs the iteration reads
LoopIteration(g, s, table) ==
    IF ~LoopContinues(s.queue)
    THEN [s EXCEPT !.pc = "done", !.route = NoRoute]
    ELSE IF ~PopDefined(s.queue)
    THEN [s EXCEPT !.pc = "raised"]
    ELSE LET e == HeapTop(s.queue)
             rest == s.queue \ {e}
         IN  IF e.u = s.end_id
             THEN [s EXCEPT !.pc = "done", !.queue = rest,
                            !.route = RouteResult(s.strategy, e.g, e.path)]
             ELSE IF IsStale(e.g, table, e.u)
             THEN [s EXCEPT !.queue = rest]
             ELSE IF BreakerTrips(s.visited_count + 1)
             THEN [s EXCEPT !.pc = "done", !.queue = rest,
                            !.visited_count = @ + 1, !.route = NoRoute]
             ELSE LET imp == Improved(g, s.strategy, s.start_hour, table, e)
                  IN  [s EXCEPT
                          !.visited_count = @ + 1,
                          !.min_costs =
                              [v \in DOMAIN table \cup imp |->
                                  IF v \in imp
                                  THEN e.g + CalculateCost(s.strategy, g.adj[<<e.u, v>>],
                                                           s.start_hour)
                                  ELSE table[v]],
                          !.queue = rest \cup
                              {Pushed(g, s.strategy, s.start_hour, s.end_id, e, v) : v \in imp}]

\* the locals find_route ends with when it runs from the locals s by itself
RECURSIVE RunAlone(_, _)
RunAlone(g, s) ==
    IF s.pc # "search" THEN s ELSE RunAlone(g, LoopIteration(g, s, s.min_costs))

\* mutant: one min_costs for all invocations, that of the first thread
TableOfFirst(t) == searches["t1"].min_costs

\* the min_costs an invocation reads: its own local (line 143)
TableOf(t) == searches[t].min_costs

\* the graphs the threads search: up to MaxEdges edges among A -> B, A -> D,
\* B -> D and D -> B
ConcurrentAdjacencies ==
    {adj \in Adjacencies :
        DOMAIN adj \subseteq {<<idA, idB>>, <<idA, idD>>, <<idB, idD>>, <<idD, idB>>}}

ConcurrentStarts == {idA, idB}
ConcurrentEnds == {idD, idB}
ConcurrentStrategies == {"FastestStrategy", "ComfortStrategy"}
ConcurrentHours == {8}

\* a thread calls find_route
StartSearch(t) ==
    /\ searches[t].pc = "idle"
    /\ \E s \in ConcurrentStarts, e \in ConcurrentEnds,
          strat \in ConcurrentStrategies, h \in ConcurrentHours :
          searches' = [searches EXCEPT ![t] = FindRouteEntry(G, s, e, h, strat)]
    /\ UNCHANGED <<G, query_vars, graph_file, graph_cache, instance, loads, threads>>

\* a thread runs one iteration of the loop of its find_route
ConcurrentStep(t) ==
    /\ searches[t].pc = "search"
    /\ searches' = [searches EXCEPT ![t] = LoopIteration(G, searches[t], TableOf(t))]
    /\ UNCHANGED <<G, query_vars, graph_file, graph_cache, instance, loads, threads>>

InitConcurrent ==
    /\ G \in {Graph(DefaultOrder, adj) : adj \in ConcurrentAdjacencies}
    /\ pc = "idle"
    /\ args = NoArgs
    /\ Idle
    /\ result = NoResult
    /\ prev = NoPrev
    /\ response = NoResponse
    /\ NoIngest
    /\ graph_file = TRUE
    /\ graph_cache = LoadedGraph(1)
    /\ instance = Repository(LoadedGraph(1))
    /\ loads = 1
    /\ threads = <<>>
    /\ searches = [t \in Threads |-> NoSearch]

NextConcurrent == \E t \in Threads : StartSearch(t) \/ ConcurrentStep(t)

SpecConcurrent == InitConcurrent /\ [][NextConcurrent]_vars

-----------------------------------------------------------------------------
(* Reference notions the claims are stated with *)

Infinity == 1000000 * 1000

SetMin(S) == CHOOSE x \in S : \A y \in S : x <= y

\* least cost of a directed path from s to t of at most k edges
RECURSIVE BestWithin(_, _, _, _, _, _)
BestWithin(g, strat, hour, s, t, k) ==
    IF k = 0 THEN (IF s = t THEN 0 ELSE Infinity)
    ELSE SetMin({BestWithin(g, strat, hour, s, t, k - 1)} \cup
                { BestWithin(g, strat, hour, s, p[1], k - 1)
                    + CalculateCost(strat, g.adj[p], hour) :
                  p \in {q \in DOMAIN g.adj :
                           q[2] = t /\ BestWithin(g, strat, hour, s, q[1], k - 1) < Infinity} })

\* the minimum, over all directed paths from s to t, of the summed edge costs
MinPathCost(g, strat, hour, s, t) ==
    BestWithin(g, strat, hour, s, t, Cardinality(Nodes) - 1)

Reachable(g, s, t) == MinPathCost(g, "FastestStrategy", 0, s, t) < Infinity

\* the heuristic never overestimates the cost that remains to the end stop
Admissible(g, strat, hour, end_id) ==
    \A v \in Nodes :
        Reachable(g, v, end_id) =>
            Heuristic(g, end_id, v) <= MinPathCost(g, strat, hour, v, end_id)

RECURSIVE SumDurations(_)
SumDurations(path) ==
    IF Len(path) = 0 THEN 0
    ELSE SumDurations(SubSeq(path, 1, Len(path) - 1)) + path[Len(path)].duration_mins

\* find_route ran to its end without the circuit breaker tripping
Searched == pc = "done" /\ real_start # None /\ ~BreakerTrips(visited_count)

-----------------------------------------------------------------------------
(* Claims *)

\* C1 as stated: whenever the end stop is reachable within the expansion
\* bound, the returned route's total is the minimum path cost.
C1_Optimal ==
    (Searched /\ Reachable(G, real_start, real_end)) =>
        /\ route.found
        /\ route.total_duration_mins =
             MinPathCost(G, strategy, now_hour, real_start, real_end)

\* C1 amended: whenever the end stop is reachable within the expansion bound
\* a route is returned, its total is never below the minimum path cost, and it
\* equals the minimum when the heuristic never overestimates the remaining cost.
C1_OptimalWhenAdmissible ==
    (Searched /\ Reachable(G, real_start, real_end)) =>
        /\ route.found
        /\ route.total_duration_mins >=
             MinPathCost(G, strategy, now_hour, real_start, real_end)
        /\ Admissible(G, strategy, now_hour, real_end) =>
             route.total_duration_mins =
               MinPathCost(G, strategy, now_hour, real_start, real_end)

\* a two-step chain was returned although a direct edge exists, under a
\* heuristic that is admissible and not zero on the intermediate stop
C1_Witness ==
    /\ Searched /\ route.found /\ Len(route.path) = 2
    /\ <<real_start, real_end>> \in DOMAIN G.adj
    /\ Admissible(G, strategy, now_hour, real_end)
    /\ Heuristic(G, real_end, route.path[1].v) > 0
    /\ route.total_duration_mins <
         CalculateCost(strategy, G.adj[<<real_start, real_end>>], now_hour)

\* C2: a returned route is a contiguous chain of existing edges from the start
\* stop to the end stop, each step carries the strategy's cost (and the names
\* and mode) of its edge, and the total is the sum of the step costs.
C2_RouteIsRealPath ==
    (pc = "done" /\ route.found) =>
        LET path == route.path
            n == Len(path)
        IN  /\ n = 0 => real_start = real_end
            /\ n > 0 => path[1].u = real_start /\ path[n].v = real_end
            /\ \A i \in 1..(n - 1) : path[i].v = path[i + 1].u
            /\ \A i \in 1..n :
                 /\ <<path[i].u, path[i].v>> \in DOMAIN G.adj
                 /\ path[i].duration_mins =
                      CalculateCost(strategy, G.adj[<<path[i].u, path[i].v>>], now_hour)
                 /\ path[i].mode = EdgeMode(G.adj[<<path[i].u, path[i].v>>])
                 /\ path[i].from_node = GetNodeName(G, path[i].u)
                 /\ path[i].to_node = GetNodeName(G, path[i].v)
            /\ route.total_duration_mins = SumDurations(path)

\* a two-step route with a positive total was returned
C2_Witness ==
    pc = "done" /\ route.found /\ Len(route.path) = 2 /\ route.total_duration_mins > 0

\* C3: when the end stop is not reachable along directed edges the query
\* reports not-found (find_route returns nothing, find_advanced_path an error
\* with the 'No route' message); exhaustion and a breaker trip give that same
\* result, and nothing is raised.
C3_NotFound ==
    /\ pc # "raised"
    /\ (pc = "done" /\ real_start # None /\ ~Reachable(G, real_start, real_end)) =>
          ~route.found
    /\ (pc = "done" /\ real_start # None /\ ~route.found) =>
          /\ result.status = "error"
          /\ result.message.text = "No route found via Advanced Engine."

\* not-found was reported where only the reverse edge exists
C3_Witness ==
    /\ pc = "done" /\ real_start # None /\ ~route.found
    /\ <<real_end, real_start>> \in DOMAIN G.adj
    /\ ~BreakerTrips(visited_count)
    /\ result.status = "error"

\* a natural number that bounds the loop iterations still to come
Variant == Cardinality(queue) + Cardinality(Nodes) * (MAX_VISIT + 1 - visited_count)

\* C4: every search terminates: each iteration of the loop either returns (a
\* route or not-found) or goes on with a strictly smaller natural-number
\* variant, so the loop cannot run forever and nothing else ends it.
C4_Terminates ==
    [][pc = "search" =>
         \/ pc' = "done"
         \/ pc' = "search" /\ Variant' < Variant /\ Variant' >= 0]_vars

\* a search over a zero-cost cycle A <-> B has ended after expanding both
C4_Witness ==
    /\ pc = "done" /\ expanded >= 2
    /\ {<<idA, idB>>, <<idB, idA>>} \subseteq DOMAIN G.adj
    /\ EdgeWeight(G.adj[<<idA, idB>>]) = 0 /\ EdgeWeight(G.adj[<<idB, idA>>]) = 0

\* C5 as stated: the number of entries popped never exceeds MAX_VISIT.
C5_PopsBounded == pops <= MAX_VISIT

\* C5 amended: the number of entries expanded never exceeds MAX_VISIT; the
\* counter of popped entries that are neither the goal nor stale reaches at most
\* MAX_VISIT + 1, and when it exceeds MAX_VISIT the search has stopped with
\* not-found.
C5_ExpansionsBounded ==
    /\ expanded <= MAX_VISIT
    /\ visited_count <= MAX_VISIT + 1
    /\ BreakerTrips(visited_count) =>
          /\ pc = "done" /\ ~route.found
          /\ result.status = "error"
          /\ result.message.text = "No route found via Advanced Engine."

\* the breaker has tripped: B, reached a second time by way of D, was the
\* pop after MAX_VISIT expansions
C5_Witness ==
    /\ pc = "done" /\ visited_count = MAX_VISIT + 1 /\ expanded = MAX_VISIT
    /\ pops = MAX_VISIT + 1
    /\ ~route.found
    /\ <<idD, idB>> \in DOMAIN G.adj

\* the second of two queries with the same start, end, time_str and strategy
\* has returned
SameQueryTwice ==
    pc = "done" /\ prev # NoPrev /\ args.time_str = prev.args.time_str

\* C6 as stated: two queries with identical start, end, departure time and
\* strategy against an unchanged graph return identical results.
C6_SameInputsSameResult ==
    SameQueryTwice => result = prev.result /\ route = prev.route

\* C6 amended: two queries with identical start, end, departure time and
\* strategy against an unchanged graph return identical results (same steps in
\* the same order, same total) when the departure time parses or the clock
\* shows the same hour at both.
C6_SameHourSameResult ==
    (SameQueryTwice /\ (TimeParses(args.time_str)
                        \/ args.clock_hour = prev.args.clock_hour)) =>
        result = prev.result /\ route = prev.route

\* the same query with a departure time of 08:00, asked at two different hours,
\* has twice returned a bus ride
C6_Witness ==
    /\ SameQueryTwice /\ TimeParses(args.time_str)
    /\ args.clock_hour # prev.args.clock_hour
    /\ route.found /\ Len(route.path) = 1 /\ route.path[1].mode = "bus"
    /\ result.status = "success" /\ prev.result.status = "success"

\* the identifier is no node id and the fuzzy lookup finds nothing for it
Unresolvable(ident) == ~HasNode(G, ident) /\ FindNodeByName(G, ident) = None

\* C7: when the start or the end identifier is neither a node id nor matched by
\* the fuzzy lookup, the query returns an error naming that identifier and the
\* search never starts: no frontier, no table, nothing popped or expanded.
C7_FailFast ==
    (pc # "idle" /\ (Unresolvable(args.start_node) \/ Unresolvable(args.end_node))) =>
        /\ pc = "done"
        /\ result.status = "error"
        /\ IF Unresolvable(args.start_node)
           THEN /\ result.message.text = "Start '{}' not found."
                /\ result.message.ident = args.start_node
           ELSE /\ result.message.text = "End '{}' not found."
                /\ result.message.ident = args.end_node
        /\ queue = {} /\ min_costs = <<>> /\ route = NoRoute
        /\ pops = 0 /\ expanded = 0 /\ visited_count = 0

\* a query whose start resolves by name and whose end is in no name has been
\* rejected, on a graph that has an edge
C7_Witness ==
    /\ pc = "done" /\ result.status = "error"
    /\ args.start_node = <<"a">> /\ ~Unresolvable(args.start_node)
    /\ args.end_node = <<"x">> /\ result.message.ident = <<"x">>
    /\ DOMAIN G.adj # {}

\* positions in storage order of the nodes whose lowercased name contains the
\* lowercased identifier
Matches(g, ident) ==
    {i \in 1..Len(g.order) :
        /\ "name" \in DOMAIN g.nodes[g.order[i]]
        /\ StrContains(StrLower(ident), StrLower(g.nodes[g.order[i]].name))}

\* the first of them, None when there is none
FirstMatch(g, ident) ==
    IF Matches(g, ident) = {} THEN None ELSE g.order[SetMin(Matches(g, ident))]

\* what the query made of its two identifiers
ResolvedAs(start, end) ==
    IF start = None THEN result.status = "error" /\ result.message.ident = args.start_node
                         /\ result.message.text = "Start '{}' not found."
    ELSE IF end = None THEN result.status = "error" /\ result.message.ident = args.end_node
                            /\ result.message.text = "End '{}' not found."
    ELSE real_start = start /\ real_end = end

\* C8 as stated: an identifier that is a node id resolves to that node; any
\* other identifier resolves to the first node whose lowercased name contains
\* it lowercased, and to nothing when no name contains it.
C8_IdThenFirstMatch ==
    pc # "idle" =>
        ResolvedAs(IF HasNode(G, args.start_node) THEN args.start_node
                   ELSE FirstMatch(G, args.start_node),
                   IF HasNode(G, args.end_node) THEN args.end_node
                   ELSE FirstMatch(G, args.end_node))

\* resolution as amended: the empty identifier resolves to nothing
IdThenFirstMatch(g, ident) ==
    IF HasNode(g, ident) THEN ident
    ELSE IF ident = <<>> THEN None
    ELSE FirstMatch(g, ident)

\* C8 amended: an identifier that is a node id resolves to that node, even when
\* other nodes' names contain it; any other non-empty identifier resolves to
\* the first node in storage order whose lowercased name contains it
\* lowercased, and to nothing when no name contains it; the empty identifier
\* resolves to nothing.
C8_IdThenFirstMatchUnlessEmpty ==
    pc # "idle" =>
        ResolvedAs(IdThenFirstMatch(G, args.start_node),
                   IdThenFirstMatch(G, args.end_node))

\* the start is the id A although the first name containing "a" is B's, and
\* the end is "b", resolved by name
C8_Witness ==
    /\ pc # "idle"
    /\ args.start_node = idA /\ FirstMatch(G, idA) = idB /\ real_start = idA
    /\ args.end_node = <<"b">> /\ real_end = FirstMatch(G, <<"b">>)
    /\ real_end # None

\* C9: find_node_by_name returns the same node for the same query on graphs
\* that hold the same nodes in different storage orders.
C9_OrderIndependent ==
    pc # "idle" =>
        \A order \in StorageOrders :
            FindNodeByName(Graph(order, G.adj), args.start_node)
                = FindNodeByName(G, args.start_node)

\* the time string has the wrong number of fields, a non-numeric field, or an
\* hour or a minute out of range
Malformed(time_str) ==
    /\ time_str # None
    /\ ~ \E k \in 2..(Len(time_str) - 1) :
            /\ time_str[k] = ":"
            /\ \A i \in (1..Len(time_str)) \ {k} : time_str[i] \in Digits
            /\ ParseInt(SubSeq(time_str, 1, k - 1)) <= 23
            /\ ParseInt(SubSeq(time_str, k + 1, Len(time_str))) <= 59

\* C10: a departure-time string that does not parse as HH:MM never makes the
\* query fail; the query proceeds with the hour of the current process time,
\* and its result is the one the query without a departure time returns at
\* that time.
C10_MalformedTimeFallsBack ==
    /\ pc # "raised"
    /\ (pc # "idle" /\ Malformed(args.time_str) /\ real_start # None) =>
          now_hour = args.clock_hour
    /\ (/\ pc = "done" /\ prev # NoPrev
        /\ Malformed(prev.args.time_str) /\ args.time_str = None
        /\ args.clock_hour = prev.args.clock_hour) =>
          result = prev.result /\ route = prev.route

\* a query with the departure time "25:00" and then the same query without
\* one, both asked in the rush hour, have returned the same bus ride at the
\* rush-hour cost
C10_Witness ==
    /\ pc = "done" /\ prev # NoPrev
    /\ prev.args.time_str = <<"2", "5", ":", "0", "0">> /\ args.time_str = None
    /\ args.clock_hour = 8 /\ prev.args.clock_hour = 8
    /\ result.status = "success" /\ prev.result = result
    /\ Len(route.path) = 1 /\ route.path[1].mode = "bus"
    /\ route.path[1].duration_mins = FastestCost(G.adj[<<real_start, real_end>>], 8)
    /\ route.path[1].duration_mins # FastestCost(G.adj[<<real_start, real_end>>], 12)

\* the traffic multiplier table of the Fastest strategy, times 2
TrafficMultiplier(hour) ==
    IF hour \in (7..9) \cup (17..20) THEN 3
    ELSE IF hour \in 0..5 THEN 1
    ELSE 2

\* base_duration / 60, times the traffic multiplier for bus and minibus
TableCost(edge_data, hour) ==
    IF EdgeMode(edge_data) \in {"bus", "minibus"}
    THEN EdgeWeight(edge_data) * 10 * TrafficMultiplier(hour)
    ELSE EdgeWeight(edge_data) * 20

\* C11: under the Fastest strategy, at every hour 0..23, a bus or minibus edge
\* costs base_duration/60 times the traffic multiplier of the departure hour
\* and an edge of any other mode costs base_duration/60; the steps and the
\* total of a Fastest route carry exactly these costs.
C11_FastestTable ==
    pc # "idle" =>
        /\ now_hour \in Hours /\ HourString(now_hour) = args.time_str
        /\ \A p \in DOMAIN G.adj :
              FastestCost(G.adj[p], now_hour) = TableCost(G.adj[p], now_hour)
        /\ (pc = "done" /\ strategy = "FastestStrategy" /\ route.found) =>
              /\ \A i \in 1..Len(route.path) :
                    route.path[i].duration_mins =
                      TableCost(G.adj[<<route.path[i].u, route.path[i].v>>], now_hour)
              /\ route.total_duration_mins = SumDurations(route.path)
              /\ result.total_time_min = Round2(route.total_duration_mins)

\* a minibus ride of 600 s departing at 20:00 has been returned at 15 minutes
C11_Witness ==
    /\ pc = "done" /\ strategy = "FastestStrategy" /\ now_hour = 20
    /\ route.found /\ Len(route.path) = 1 /\ route.path[1].mode = "minibus"
    /\ EdgeWeight(G.adj[<<idA, idD>>]) = 600
    /\ result.status = "success" /\ result.total_time_min = 1500

\* the graph holds the direct edge A -> D and the chain A -> m -> D
HasDirectAndChain(m) ==
    {<<idA, idD>>, <<idA, m>>, <<m, idD>>} \subseteq DOMAIN G.adj

\* perceived cost of the direct edge and of the chain through m
DirectCost == CalculateCost(strategy, G.adj[<<idA, idD>>], now_hour)

ChainCost(m) ==
    CalculateCost(strategy, G.adj[<<idA, m>>], now_hour)
      + CalculateCost(strategy, G.adj[<<m, idD>>], now_hour)

\* the direct edge is faster in raw time, the chain is cheaper as perceived
DirectFasterChainCheaper(m) ==
    /\ HasDirectAndChain(m)
    /\ EdgeWeight(G.adj[<<idA, idD>>])
         < EdgeWeight(G.adj[<<idA, m>>]) + EdgeWeight(G.adj[<<m, idD>>])
    /\ ChainCost(m) < DirectCost

\* f of the chain's intermediate stop when it is pushed
ChainEstimate(m) ==
    CalculateCost(strategy, G.adj[<<idA, m>>], now_hour) + Heuristic(G, idD, m)

\* the returned route is the chain through m
ReturnsChain(m) ==
    /\ route.found /\ Len(route.path) = 2
    /\ route.path[1].v = m /\ route.path[2].u = m
    /\ route.total_duration_mins = ChainCost(m)

\* the returned route is the direct edge
ReturnsDirect ==
    /\ route.found /\ Len(route.path) = 1
    /\ route.total_duration_mins = DirectCost

\* Comfort's factor per mode, times 10
ComfortFactor(mode) ==
    IF mode \in {"metro", "rail", "tram"} THEN 8
    ELSE IF mode \in {"bus", "minibus"} THEN 12
    ELSE 10

\* every edge's Comfort cost is its Fastest cost times the factor of its mode
ComfortTable ==
    \A p \in DOMAIN G.adj :
        ComfortCost(G.adj[p], now_hour) * 10
            = FastestCost(G.adj[p], now_hour) * ComfortFactor(EdgeMode(G.adj[p]))

\* a Comfort query from A to D has returned on a graph with a direct bus edge
\* and a metro chain through m
ComfortBusVersusMetro(m) ==
    /\ Searched /\ strategy = "ComfortStrategy"
    /\ DirectFasterChainCheaper(m)
    /\ EdgeMode(G.adj[<<idA, idD>>]) = "bus"
    /\ EdgeMode(G.adj[<<idA, m>>]) = "metro" /\ EdgeMode(G.adj[<<m, idD>>]) = "metro"

\* C12 as stated: every edge's Comfort cost is its Fastest cost times 0.8 for
\* metro/rail/tram, 1.2 for bus/minibus, 1.0 otherwise; and when a direct bus
\* edge is faster in raw time but a metro chain has the lower comfort-weighted
\* sum, the engine returns the metro chain.
C12_ComfortPrefersMetro ==
    pc # "idle" =>
        /\ ComfortTable
        /\ \A m \in {idB, idC} : ComfortBusVersusMetro(m) => ReturnsChain(m)

\* C12 amended: the factors are as stated; the metro chain with the lower
\* comfort-weighted sum is returned when the cost of its first edge plus the
\* heuristic of its intermediate stop is below the comfort cost of the bus
\* edge, and the bus edge is returned when it is above.
C12_ComfortPrefersMetroWhenEstimatedCheaper ==
    pc # "idle" =>
        /\ ComfortTable
        /\ \A m \in {idB, idC} :
              ComfortBusVersusMetro(m) =>
                  /\ ChainEstimate(m) < DirectCost => ReturnsChain(m)
                  /\ ChainEstimate(m) > DirectCost => ReturnsDirect

\* at noon the metro chain through B (9.6 min) has been returned instead of
\* the direct bus edge (12 min)
C12_Witness ==
    /\ ComfortBusVersusMetro(idB) /\ now_hour = 12
    /\ ChainEstimate(idB) < DirectCost
    /\ ReturnsChain(idB)
    /\ DirectCost = 12 * 1200 /\ ChainCost(idB) = 96 * 120
    /\ result.status = "success" /\ result.total_time_min = 960

\* Economic's factor per mode, times 10
EconomicFactor(mode) == IF mode = "walk" THEN 5 ELSE 10

\* every edge's Economic cost is its Fastest cost times the factor of its mode
EconomicTable ==
    \A p \in DOMAIN G.adj :
        EconomicCost(G.adj[p], now_hour) * 10
            = FastestCost(G.adj[p], now_hour) * EconomicFactor(EdgeMode(G.adj[p]))

\* an Economic query from A to D has returned on a graph with a direct vehicle
\* edge and a walking chain through m
EconomicVehicleVersusWalk(m) ==
    /\ Searched /\ strategy = "EconomicStrategy"
    /\ DirectFasterChainCheaper(m)
    /\ EdgeMode(G.adj[<<idA, idD>>]) # "walk"
    /\ EdgeMode(G.adj[<<idA, m>>]) = "walk" /\ EdgeMode(G.adj[<<m, idD>>]) = "walk"

\* C13 as stated: every edge's Economic cost is its Fastest cost times 0.5 for
\* walk and 1.0 otherwise; and when a vehicle edge is faster in raw time but a
\* walking chain has the lower economic-weighted sum, the engine returns the
\* walking chain.
C13_EconomicPrefersWalk ==
    pc # "idle" =>
        /\ EconomicTable
        /\ \A m \in {idB, idC} : EconomicVehicleVersusWalk(m) => ReturnsChain(m)

\* C13 amended: the factors are as stated; the walking chain with the lower
\* economic-weighted sum is returned when the cost of its first edge plus the
\* heuristic of its intermediate stop is below the cost of the vehicle edge,
\* and the vehicle edge is returned when it is above.
C13_EconomicPrefersWalkWhenEstimatedCheaper ==
    pc # "idle" =>
        /\ EconomicTable
        /\ \A m \in {idB, idC} :
              EconomicVehicleVersusWalk(m) =>
                  /\ ChainEstimate(m) < DirectCost => ReturnsChain(m)
                  /\ ChainEstimate(m) > DirectCost => ReturnsDirect

\* the walking chain through B (7.5 min) has been returned instead of the
\* direct taxi edge (10 min)
C13_Witness ==
    /\ EconomicVehicleVersusWalk(idB)
    /\ EdgeMode(G.adj[<<idA, idD>>]) = "taxi"
    /\ ChainEstimate(idB) < DirectCost
    /\ ReturnsChain(idB)
    /\ DirectCost = 10 * 1200 /\ ChainCost(idB) = 75 * 120
    /\ result.status = "success" /\ result.total_time_min = 750

\* C14: every strategy's cost is clamped to a minimum of 0: for every edge,
\* mode and hour the value Fastest, Comfort and Economic return is >= 0, and so
\* are every step's perceived cost and every accumulated g.
C14_CostsNonNegative ==
    pc # "idle" =>
        /\ \A p \in DOMAIN G.adj, strat \in StrategyNames :
              CalculateCost(strat, G.adj[p], now_hour) >= 0
        /\ \A e \in queue :
              /\ e.g >= 0
              /\ \A i \in 1..Len(e.path) : e.path[i].duration_mins >= 0
        /\ route.found =>
              /\ route.total_duration_mins >= 0
              /\ \A i \in 1..Len(route.path) : route.path[i].duration_mins >= 0

\* C15: a successful route has no steps if and only if start and end resolve
\* to the same stop; a query whose start and end are the same stop succeeds
\* with total cost 0, and a successful route between different stops has at
\* least one step.
C15_EmptyIffSameStop ==
    /\ (pc = "done" /\ route.found) =>
          /\ result.status = "success"
          /\ Len(route.path) = 0 <=> real_start = real_end
          /\ Len(result.route) = 0 <=> real_start = real_end
    /\ (pc = "done" /\ real_start # None /\ real_start = real_end) =>
          /\ route.found /\ route.path = <<>> /\ route.total_duration_mins = 0
          /\ result.status = "success" /\ result.total_time_min = 0
          /\ result.route = <<>>

\* a query from a stop to itself has succeeded on a graph where the stop lies
\* on a cycle
C15_Witness ==
    /\ pc = "done" /\ real_start = idA /\ real_end = idA
    /\ route.found /\ route.path = <<>> /\ result.status = "success"
    /\ {<<idA, idB>>, <<idB, idA>>} \subseteq DOMAIN G.adj
    /\ pops = 1

\* a query has returned a result tagged as success
Succeeded == pc = "done" /\ "status" \in DOMAIN result /\ result.status = "success"

\* the query was a request to /api/route, served by find_shortest_path
ViaApiRoute == response # NoResponse

\* number of edges the returned route traverses
TraversedEdges ==
    IF ViaApiRoute THEN Len(result.route) - 1 ELSE Len(route.path)

\* C16: for every successful route the reported number of stops is the number
\* of stops on the route, start and end included: the number of traversed
\* edges plus one.
C16_StopsIsEdgesPlusOne ==
    Succeeded => result.stops = TraversedEdges + 1

\* C17: for a successful route with at least one step, the 'route' list holds
\* one entry per step in travel order, then exactly one entry whose transport
\* is 'ARRIVED' and whose stop is the destination; the first entry's stop is
\* the start and entry i+1's stop is the stop step i reaches.
C17_SegmentsThenArrived ==
    (Succeeded /\ TraversedEdges >= 1) =>
        LET segs == result.route
            n == TraversedEdges
        IN  /\ Len(segs) = n + 1
            /\ \A i \in 1..n : "arrived" \notin DOMAIN segs[i].transport
            /\ segs[n + 1].transport = [arrived |-> "ARRIVED"]
            /\ IF ViaApiRoute
               THEN /\ segs[1].from_stop.id = args.start_node
                    /\ segs[n + 1].from_stop.id = args.end_node
                    /\ \A i \in 1..n :
                          LET edge == <<segs[i].from_stop.id, segs[i + 1].from_stop.id>>
                          IN  /\ edge \in DOMAIN G.adj
                              /\ segs[i].transport.duration_sec = EdgeWeight(G.adj[edge])
                              /\ segs[i].transport.type = G.adj[edge].type
               ELSE /\ route.path[1].u = real_start
                    /\ route.path[n].v = real_end
                    /\ segs[n + 1].from_stop.name = GetNodeName(G, real_end)
                    /\ \A i \in 1..n :
                          /\ segs[i].from_stop.name = GetNodeName(G, route.path[i].u)
                          /\ segs[i].transport.type = route.path[i].mode
                          /\ i < n => route.path[i + 1].u = route.path[i].v

\* find_advanced_path has returned the two-step route A -> B -> D as three
\* entries, the last one ARRIVED at D
C17_Witness ==
    /\ Succeeded /\ ~ViaApiRoute /\ Len(route.path) = 2
    /\ real_start = idA /\ real_end = idD /\ route.path[1].v = idB
    /\ Len(result.route) = 3
    /\ result.route[1].from_stop.name = GetNodeName(G, idA)
    /\ result.route[2].from_stop.name = GetNodeName(G, idB)
    /\ result.route[3] = [from_stop |-> [name |-> GetNodeName(G, idD)],
                          transport |-> [arrived |-> "ARRIVED"]]

\* C18: /api/route answers 404 whenever find_shortest_path reports a failure
\* (unknown start, unknown end, no route between the stops) and 200 only for a
\* successful route.
C18_FailureIs404 ==
    (pc = "done" /\ ViaApiRoute) =>
        /\ ~Succeeded => response.status_code = 404
        /\ response.status_code = 200 => Succeeded

\* C19: no route query raises to the caller; find_advanced_path and
\* find_shortest_path return a result tagged as success or as error.
C19_NeverRaises ==
    /\ pc # "raised"
    /\ pc = "done" =>
          \/ "error" \in DOMAIN result
          \/ "status" \in DOMAIN result /\ result.status \in {"success", "error"}

\* the rows of edges_df for the ordered pair e that were not skipped
TripsOf(e) ==
    {i \in 1..Len(edges_df) :
        /\ <<edges_df[i].stop_id, edges_df[i].next_stop_id>> = e
        /\ edges_df[i].next_arr_seconds - edges_df[i].seconds_dep >= 0}

\* the edge e carries the duration, mode and route name of a trip of least
\* duration among those observed for e
IsMinimumTrip(e) ==
    \E i \in TripsOf(e) :
        LET t == edges_df[i].next_arr_seconds - edges_df[i].seconds_dep
        IN  /\ \A j \in TripsOf(e) :
                  t <= edges_df[j].next_arr_seconds - edges_df[j].seconds_dep
            /\ G.adj[e].weight = t
            /\ G.adj[e].type = RouteTypeMap(edges_df[i].route_type)
            /\ "route_name" \in DOMAIN G.adj[e]
            /\ G.adj[e].route_name = edges_df[i].route_short_name

\* C20: after ingestion has finished (trip edges, then walking transfers) every
\* edge's duration is nonnegative, and an edge between stops for which trips
\* were observed carries the duration, mode and route name of the
\* minimum-duration trip.
C20_MinimumTripRetained ==
    pc = "built" =>
        \A e \in DOMAIN G.adj :
            /\ G.adj[e].weight >= 0
            /\ TripsOf(e) # {} => IsMinimumTrip(e)

\* the modes the data model enumerates
KnownModes ==
    {"walk", "bus", "minibus", "metro", "rail", "tram", "ferry", "funicular",
     "taxi", "trolleybus", "cable_tram", "gondola", "monorail"}

\* the edge's mode is missing or is none of the enumerated modes
ModeMissingOrUnknown(edge_data) ==
    "type" \notin DOMAIN edge_data \/ edge_data.type \notin KnownModes

\* C21: an edge whose mode is missing or unknown is treated as a bus edge: the
\* three strategies cost it as they cost a bus edge of the same duration, and
\* the route step made from it reports mode bus.
C21_UnknownModeIsBus ==
    pc # "idle" =>
        \A p \in DOMAIN G.adj :
            ModeMissingOrUnknown(G.adj[p]) =>
                /\ \A strat \in StrategyNames :
                      CalculateCost(strat, G.adj[p], now_hour) =
                        CalculateCost(strat,
                                      [weight |-> EdgeWeight(G.adj[p]), type |-> "bus"],
                                      now_hour)
                /\ route.found =>
                      \A i \in 1..Len(route.path) :
                          <<route.path[i].u, route.path[i].v>> = p =>
                              route.path[i].mode = "bus"

\* the adjacency after the first k rows of edges_df
RECURSIVE TripsIngested(_)
TripsIngested(k) ==
    IF k = 0 THEN <<>> ELSE WithTrip(TripsIngested(k - 1), edges_df[k])

\* the adjacency add_walking_transfers was called on, and its max_dist_meters
BeforeTransfers == IF pc = "linked" THEN <<>> ELSE TripsIngested(Len(edges_df))
MaxDistMeters == IF pc = "linked" THEN args.max_dist_meters ELSE 300

\* the distance in millimetres between the i-th and the j-th stop
StopDistance(i, j) ==
    Haversine(StopsDf[i].stop_lat, StopsDf[i].stop_lon,
              StopsDf[j].stop_lat, StopsDf[j].stop_lon)

\* the coordinates of the two stops differ by at most 0.01 degree each
WithinCoarseBox(i, j) ==
    /\ Abs(StopsDf[i].stop_lat - StopsDf[j].stop_lat) <= 100
    /\ Abs(StopsDf[i].stop_lon - StopsDf[j].stop_lon) <= 100

\* walk edges of one weight in both directions between stops a and b
WalkLinked(a, b) ==
    /\ <<a, b>> \in DOMAIN G.adj
    /\ <<b, a>> \in DOMAIN G.adj
    /\ G.adj[<<a, b>>].type = "walk"
    /\ G.adj[<<b, a>>].type = "walk"
    /\ G.adj[<<a, b>>].weight = G.adj[<<b, a>>].weight

\* the edge from a to b is what it was before add_walking_transfers ran
EdgeUntouched(a, b) ==
    /\ <<a, b>> \in DOMAIN G.adj <=> <<a, b>> \in DOMAIN BeforeTransfers
    /\ <<a, b>> \in DOMAIN G.adj => G.adj[<<a, b>>] = BeforeTransfers[<<a, b>>]

\* C22 as stated: after add_walking_transfers every pair of distinct stops at
\* most max_dist_meters apart is joined by walk edges of one weight in both
\* directions, and no edge was added between stops farther apart.
C22_SymmetricAndBounded ==
    pc \in {"built", "linked"} =>
        \A i, j \in 1..Len(StopsDf) :
            i # j =>
                /\ StopDistance(i, j) <= MaxDistMeters * 1000 =>
                      WalkLinked(StopsDf[i].stop_id, StopsDf[j].stop_id)
                /\ StopDistance(i, j) > MaxDistMeters * 1000 =>
                      EdgeUntouched(StopsDf[i].stop_id, StopsDf[j].stop_id)

\* C22: after add_walking_transfers every pair of distinct stops that is at
\* most max_dist_meters apart and whose latitudes and longitudes differ by at
\* most 0.01 degree each is joined by walk edges of one weight in both
\* directions; between any other pair of stops no edge was added or changed.
C22_SymmetricWithinCoarseBox ==
    pc \in {"built", "linked"} =>
        \A i, j \in 1..Len(StopsDf) :
            i # j =>
                IF StopDistance(i, j) <= MaxDistMeters * 1000 /\ WithinCoarseBox(i, j)
                THEN WalkLinked(StopsDf[i].stop_id, StopsDf[j].stop_id)
                ELSE EdgeUntouched(StopsDf[i].stop_id, StopsDf[j].stop_id)

\* add_walking_transfers ran with 2000 m: A and B (222 m) are linked both ways,
\* A and D (1501 m, 0.0135 degree) are not
C22_Witness ==
    /\ pc = "linked"
    /\ args.max_dist_meters = 2000
    /\ WalkLinked(idA, idB)
    /\ G.adj[<<idA, idB>>].weight = 185
    /\ <<idA, idD>> \notin DOMAIN G.adj
    /\ <<idA, idC>> \notin DOMAIN G.adj

\* the frontier is about to be popped
AboutToPop == pc = "search" /\ queue # {} /\ PopDefined(queue)

\* C24: whenever the frontier holds several entries with the minimal f, the
\* entry popped next has the lowest g among them, and among those equal in f
\* and g the smallest node id.
C24_TieBreakByGThenNode ==
    AboutToPop =>
        LET e == HeapTop(queue)
        IN  /\ \A o \in queue : e.f <= o.f
            /\ \A o \in queue \ {e} :
                  o.f = e.f =>
                      \/ e.g < o.g
                      \/ e.g = o.g /\ ~StrLess(o.u, e.u)

\* the entries the step from this state to the next has pushed
NewEntries == queue' \ queue

\* C25: during a search min_costs[v] never increases, it changes only when an
\* entry with that g is pushed for v, and every pushed entry carries a g
\* strictly below what the table held, so the table holds the smallest g pushed
\* so far for each stop; a popped entry whose g exceeds min_costs of its stop is
\* dropped: nothing is expanded, pushed or returned, also when its stop is the
\* end stop.
C25_TableMonotoneLazyDeletionSound ==
    [][pc = "search" =>
          /\ min_costs[real_start] = 0
          /\ \A e \in queue : e.u \in DOMAIN min_costs /\ e.g >= min_costs[e.u]
          /\ \A v \in DOMAIN min_costs :
                v \in DOMAIN min_costs' /\ min_costs'[v] <= min_costs[v]
          /\ \A e \in NewEntries :
                /\ e.g = min_costs'[e.u]
                /\ e.u \in DOMAIN min_costs => e.g < min_costs[e.u]
          /\ \A v \in DOMAIN min_costs' :
                (v \notin DOMAIN min_costs \/ min_costs'[v] # min_costs[v]) =>
                    \E e \in NewEntries : e.u = v /\ e.g = min_costs'[v]
          /\ (queue # {} /\ PopDefined(queue)
                /\ HeapTop(queue).g > min_costs[HeapTop(queue).u]) =>
                    /\ queue' = queue \ {HeapTop(queue)}
                    /\ min_costs' = min_costs
                    /\ expanded' = expanded
                    /\ route' = route
                    /\ pc' = "search"]_vars

\* a stale entry has been popped and dropped after its stop was reached for
\* less and expanded: one pop more than expansions, the breaker has not
\* tripped and the search is still running
C25_Witness ==
    /\ pc = "search"
    /\ expanded = 3
    /\ pops = expanded + 1
    /\ visited_count = expanded

IsSimple(path, start_id, end_id) ==
    /\ \A i, j \in 1..Len(path) : i # j => path[i].v # path[j].v
    /\ \A i \in 1..Len(path) :
          /\ path[i].v # start_id
          /\ path[i].u # end_id
          /\ path[i].v = end_id => i = Len(path)

\* C28: the path of every frontier entry and of every returned route is
\* simple: no stop is entered twice, the start stop is never re-entered, and
\* the end stop appears only as the destination of the last step.
C28_PathsSimple ==
    /\ pc = "search" => \A e \in queue : IsSimple(e.path, real_start, real_end)
    /\ (pc = "done" /\ route.found) => IsSimple(route.path, real_start, real_end)

\* a route of two steps was returned from A on a graph whose zero-cost edge
\* B -> A leads back to the start
C28_Witness ==
    /\ pc = "done" /\ route.found /\ Len(route.path) = 2
    /\ real_start = idA
    /\ <<idB, idA>> \in DOMAIN G.adj
    /\ EdgeWeight(G.adj[<<idB, idA>>]) = 0
    /\ route.path[1].v = idB

\* the graph objects the calls of get_graph and get_instance have returned
GraphsReceived ==
    UNION {{threads[t].got[i] : i \in 1..Len(threads[t].got)} : t \in Threads}
        \ {RuntimeError}

\* C26: in any sequence or interleaving of get_graph() and get_instance()
\* calls the graph file is loaded at most once and every caller receives the
\* same graph object.
C26_LoadedOnceSameObject ==
    /\ loads <= 1
    /\ Cardinality(GraphsReceived) <= 1

\* the locals find_route starts with for the arguments of the invocation s
FromTheStart(s) == FindRouteEntry(G, s.start_id, s.end_id, s.start_hour, s.strategy)

\* C23: in every interleaving of the searches of the threads, each search
\* returns what it returns when it runs by itself over the same graph, and at
\* every point of the interleaving what is left of it leads to that result.
C23_NoInterference ==
    \A t \in Threads :
        searches[t].pc # "idle" =>
            /\ RunAlone(G, searches[t]).route = RunAlone(G, FromTheStart(searches[t])).route
            /\ RunAlone(G, searches[t]).pc = RunAlone(G, FromTheStart(searches[t])).pc

\* the first thread has returned a route of two steps under one strategy while
\* the second, which started from another stop under the other strategy, is in
\* its loop with a table of its own
C23_Witness ==
    /\ searches["t1"].pc = "done"
    /\ searches["t1"].route.found
    /\ Len(searches["t1"].route.path) = 2
    /\ searches["t2"].pc = "search"
    /\ searches["t2"].visited_count >= 1
    /\ searches["t2"].strategy # searches["t1"].strategy
    /\ searches["t2"].start_id # searches["t1"].start_id
    /\ searches["t2"].min_costs # searches["t1"].min_costs

====
